---- MODULE Spec2Model ----
(***************************************************************************)
(* Model of the conversion class registry of package scidatacontainer:     *)
(* the module level tables suffixes, classes and formats, the function     *)
(* register() and the import-time loop which fills the tables from the     *)
(* provider modules filebase, fileimage and filenumpy.                     *)
(***************************************************************************)
EXTENDS Integers, Sequences, FiniteSets, TLC

VARIABLES
    suffixes,   \* dict suffix -> conversion class          (__init__.py:30)
    classes,    \* dict Python class -> conversion class    (__init__.py:31)
    formats,    \* list of known conversion classes         (__init__.py:32)
    env,        \* which third party modules are installed
    pc,         \* position of the module initialisation code
    modIdx,     \* index of the provider module of the for loop in line 67
    tripIdx,    \* index of the triple of the for loop in line 75
    raised,     \* exception that left the module initialisation, or "none"
    calls,      \* number of calls of register() by users of the package
    log,        \* history: every call of register() with its outcome
    container,  \* class attributes of class Container      (__init__.py:84-86)
    fault,      \* the triple of a provider module which holds a broken class
    png,        \* instances of class PngFile               (fileimage.py:30)
    th          \* threads which execute register()

vars == <<suffixes, classes, formats, env, pc, modIdx, tripIdx, raised, calls, log,
          container, fault, png, th>>

tables == <<suffixes, classes, formats>>

\* The state of module scidatacontainer.
registry == <<suffixes, classes, formats, env, pc, modIdx, tripIdx, raised, calls,
              log, container, fault>>

\* Number of register() calls issued by users after the package is imported.
MaxCalls == 2

-----------------------------------------------------------------------------
(* Values handed to register().                                            *)

\* Parameter fclass is either a string (a known suffix) or a class object.
Str(s) == [isstr |-> TRUE, v |-> s]
Class(c) == [isstr |-> FALSE, v |-> c]

\* Python objects used as parameter pclass. PyNone is the default None.
PyNone == "None"
PyDict == "dict"
PyNdarray == "ndarray"

Methods == <<"encode", "decode", "hash">>

\* Attributes of the classes: "method" is a callable attribute, "data" is an
\* attribute which is not callable, "absent" is no attribute at all. A str
\* object has a method encode() only, "NoneType" is the object None, and the
\* classes not listed here have all three methods.
Full == [m \in {"encode", "decode", "hash"} |-> "method"]

Attr(fclass, method) ==
    IF fclass.isstr
    THEN (IF method = "encode" THEN "method" ELSE "absent")  \* builtin str
    ELSE CASE fclass.v = "NoEncode" -> [Full EXCEPT !["encode"] = "absent"][method]
           [] fclass.v = "DecodeData" -> [Full EXCEPT !["decode"] = "data"][method]
           [] fclass.v = "NoHash" -> [Full EXCEPT !["hash"] = "absent"][method]
           [] fclass.v = "NoneType" -> "absent"
           [] OTHER -> Full[method]

hasattr(fclass, method) == Attr(fclass, method) # "absent"

callable(fclass, method) == Attr(fclass, method) = "method"

-----------------------------------------------------------------------------
(* register(), lines 35-62.                                                *)

NoError == [exc |-> "none", msg |-> "", method |-> ""]
AliasWithDefaultClass ==
    [exc |-> "RuntimeError", msg |-> "Alias %s:%s with default class!", method |-> ""]
KeyError == [exc |-> "KeyError", msg |-> "", method |-> ""]
NoMethod(method) ==
    [exc |-> "RuntimeError", msg |-> "No method %s() in class for suffix '%s'!",
     method |-> method]

\* Variant: the known suffix is looked up before parameter pclass is tested.
AliasPathLookupFirst(S, fclass, pclass) ==
    IF ~fclass.isstr THEN [err |-> NoError, fclass |-> fclass]
    ELSE IF fclass.v \notin DOMAIN S THEN [err |-> KeyError, fclass |-> fclass]
    ELSE IF pclass # PyNone THEN [err |-> AliasWithDefaultClass, fclass |-> fclass]
    ELSE [err |-> NoError, fclass |-> S[fclass.v]]

\* Variant: suffixes.get(fclass), which is None for an unknown suffix.
AliasPathGet(S, fclass, pclass) ==
    IF ~fclass.isstr THEN [err |-> NoError, fclass |-> fclass]
    ELSE IF pclass # PyNone THEN [err |-> AliasWithDefaultClass, fclass |-> fclass]
    ELSE IF fclass.v \notin DOMAIN S THEN [err |-> NoError, fclass |-> Class("NoneType")]
    ELSE [err |-> NoError, fclass |-> S[fclass.v]]

\* Lines 41-44: a string is replaced by the class of this known suffix.
AliasPath(S, fclass, pclass) ==
    IF ~fclass.isstr THEN [err |-> NoError, fclass |-> fclass]
    ELSE IF pclass # PyNone THEN [err |-> AliasWithDefaultClass, fclass |-> fclass]
    ELSE IF fclass.v \notin DOMAIN S THEN [err |-> KeyError, fclass |-> fclass]
    ELSE [err |-> NoError, fclass |-> S[fclass.v]]

\* Variant: the test callable() is left out.
SanityCheckHasattrOnly(fclass) ==
    LET bad == {i \in 1..Len(Methods) : ~hasattr(fclass, Methods[i])}
    IN IF bad = {} THEN NoError
       ELSE NoMethod(Methods[CHOOSE i \in bad : \A j \in bad : i <= j])

\* Variant: the loop stops after the first two methods.
SanityCheckNoHash(fclass) ==
    LET bad == {i \in 1..(Len(Methods) - 1) :
                   ~hasattr(fclass, Methods[i]) \/ ~callable(fclass, Methods[i])}
    IN IF bad = {} THEN NoError
       ELSE NoMethod(Methods[CHOOSE i \in bad : \A j \in bad : i <= j])

\* Lines 47-50: the first method which is missing or not callable.
SanityCheck(fclass) ==
    LET bad == {i \in 1..Len(Methods) :
                   ~hasattr(fclass, Methods[i]) \/ ~callable(fclass, Methods[i])}
    IN IF bad = {} THEN NoError
       ELSE NoMethod(Methods[CHOOSE i \in bad : \A j \in bad : i <= j])

\* d[k] = v of a Python dict.
SetItem(d, k, v) == [x \in DOMAIN d \cup {k} |-> IF x = k THEN v ELSE d[x]]

\* Variant: a suffix which is already registered is kept.
RegisterSuffixKeepFirst(S, suffix, fclass) ==
    IF suffix \in DOMAIN S THEN S ELSE SetItem(S, suffix, fclass)

\* Variant: an alias follows its suffix; the suffixes which share the class
\* of this suffix are registered again with it.
RegisterSuffixLinked(S, suffix, fclass) ==
    [x \in DOMAIN S \cup {suffix} |->
        IF x = suffix THEN fclass
        ELSE IF suffix \in DOMAIN S /\ S[x] = S[suffix] THEN fclass
        ELSE S[x]]

\* Line 53.
RegisterSuffix(S, suffix, fclass) == SetItem(S, suffix, fclass)

\* Variant: the last registration always becomes the default.
RegisterClassAlways(C, pclass, fclass) == SetItem(C, pclass, fclass)

\* Lines 57-58.
RegisterClass(C, pclass, fclass) ==
    IF pclass \notin DOMAIN C \/ ~(pclass = PyDict)
    THEN SetItem(C, pclass, fclass)
    ELSE C

\* Variant: the class is appended without the membership test.
RegisterFormatAlways(F, fclass) == Append(F, fclass)

\* Variant: the test of line 61 without its not.
RegisterFormatInverted(F, fclass) ==
    IF \A i \in 1..Len(F) : F[i] # fclass THEN F ELSE Append(F, fclass)

\* Lines 61-62.
RegisterFormat(F, fclass) ==
    IF \A i \in 1..Len(F) : F[i] # fclass THEN Append(F, fclass) ELSE F

Raise(err, S, C, F) ==
    [err |-> err, suffixes |-> S, classes |-> C, formats |-> F]

\* Variant: the suffix is registered before the sanity check.
registerSuffixFirst(S, C, F, suffix, fclass, pclass) ==
    LET alias == AliasPath(S, fclass, pclass)
        check == SanityCheck(alias.fclass)
    IN IF alias.err # NoError THEN Raise(alias.err, S, C, F)
       ELSE IF check # NoError
       THEN Raise(check, RegisterSuffix(S, suffix, alias.fclass), C, F)
       ELSE [err |-> NoError,
             suffixes |-> RegisterSuffix(S, suffix, alias.fclass),
             classes |-> RegisterClass(C, pclass, alias.fclass),
             formats |-> RegisterFormat(F, alias.fclass)]

\* Lines 35-62.
register(S, C, F, suffix, fclass, pclass) ==
    LET alias == AliasPath(S, fclass, pclass)
        check == SanityCheck(alias.fclass)
    IN IF alias.err # NoError THEN Raise(alias.err, S, C, F)
       ELSE IF check # NoError THEN Raise(check, S, C, F)
       ELSE [err |-> NoError,
             suffixes |-> RegisterSuffix(S, suffix, alias.fclass),
             classes |-> RegisterClass(C, pclass, alias.fclass),
             formats |-> RegisterFormat(F, alias.fclass)]

Call(suffix, fclass, pclass, r) ==
    [suffix |-> suffix, fclass |-> fclass, pclass |-> pclass, err |-> r.err]

-----------------------------------------------------------------------------
(* Provider modules, lines 67-76.                                          *)

\* Variant: the modules in another order.
ModuleNamesNumpyFirst == <<"filenumpy", "filebase", "fileimage">>

\* Line 67.
ModuleNames == <<"filebase", "fileimage", "filenumpy">>

\* import_module() raises ModuleNotFoundError when a module which the
\* provider imports is not installed (lines 16-17; fileimage.py:24-25).
\* Module filebase was imported in line 26 already.
Importable(name) ==
    CASE name = "filebase" -> TRUE
      [] name = "fileimage" -> env.cv2 /\ env.numpy
      [] name = "filenumpy" -> env.numpy

\* Whether the module has an attribute register. Module fileimage defines
\* class PngFile and nothing else, so module.register in line 75 raises
\* AttributeError for it.
HasRegister(name) == name # "fileimage"

\* The attribute register of a provider module: the suffixes of the header
\* comment (lines 11-16), with a default class for JSON and NumPy data.
ModuleRegister(name) ==
    CASE name = "filebase" ->
            << <<"json", Class("JsonFile"), PyDict>>,
               <<"txt", Class("TextFile"), PyNone>>,
               <<"log", Str("txt"), PyNone>>,
               <<"pgm", Str("txt"), PyNone>>,
               <<"bin", Class("BinaryFile"), PyNone>> >>
      [] name = "filenumpy" ->
            << <<"npy", Class("NpyFile"), PyNdarray>> >>
      [] OTHER -> << >>

\* Line 67: the next iteration of the loop over the provider modules.
NextModule(i) ==
    IF i < Len(ModuleNames) THEN [pc |-> "import", modIdx |-> i + 1]
    ELSE [pc |-> "bind", modIdx |-> i]

\* Variant: break instead of continue.
OnModuleNotFoundBreak(i) == [pc |-> "bind", modIdx |-> i]

\* Lines 71-73: the handler of ModuleNotFoundError.
OnModuleNotFound(i) == NextModule(i)

\* A provider module with a programming error: the class of one of its
\* triples has no method hash(). NoFault is a package without such an error.
NoFault == [module |-> "", index |-> 0]

TripleAt(name, i) ==
    LET triple == ModuleRegister(name)[i]
    IN IF fault = [module |-> name, index |-> i]
       THEN <<triple[1], Class("NoHash"), triple[3]>>
       ELSE triple

\* Variant: an exception of register() is caught and the loop goes on.
AfterTripleSwallow(err, m, k) ==
    IF k < Len(ModuleRegister(ModuleNames[m]))
    THEN [pc |-> "triples", modIdx |-> m, tripIdx |-> k + 1, raised |-> "none"]
    ELSE [pc |-> NextModule(m).pc, modIdx |-> NextModule(m).modIdx,
          tripIdx |-> k, raised |-> "none"]

\* Lines 75-76: where the loop goes on after triple k of module m. No
\* handler encloses the call of register(), so its exception leaves the loop.
AfterTriple(err, m, k) ==
    IF err # NoError
    THEN [pc |-> "aborted", modIdx |-> m, tripIdx |-> k, raised |-> err.exc]
    ELSE IF k < Len(ModuleRegister(ModuleNames[m]))
    THEN [pc |-> "triples", modIdx |-> m, tripIdx |-> k + 1, raised |-> "none"]
    ELSE [pc |-> NextModule(m).pc, modIdx |-> NextModule(m).modIdx,
          tripIdx |-> k, raised |-> "none"]

-----------------------------------------------------------------------------
(* Class Container, lines 80-86.                                           *)

\* A class attribute is a reference to an object. The module level names
\* suffixes, classes and formats are bound once (lines 30-32) and register()
\* changes these objects in place, so an object is known by its name.
NoAttr == [kind |-> "undefined", name |-> "", val |-> << >>]
Ref(name) == [kind |-> "ref", name |-> name, val |-> << >>]
Copy(name, val) == [kind |-> "copy", name |-> name, val |-> val]

ObjectOf(name) ==
    CASE name = "suffixes" -> suffixes
      [] name = "classes" -> classes
      [] name = "formats" -> formats

\* The object an attribute gives access to.
Deref(attr) == IF attr.kind = "ref" THEN ObjectOf(attr.name) ELSE attr.val

\* Variant: the attribute is bound to a copy of the table.
BindAttrCopy(name) == Copy(name, ObjectOf(name))

\* Lines 84-86: _suffixes = suffixes, _classes = classes, _formats = formats.
BindAttr(name) == Ref(name)

NoContainer == [_suffixes |-> NoAttr, _classes |-> NoAttr, _formats |-> NoAttr]

-----------------------------------------------------------------------------
(* Class PngFile, fileimage.py lines 30-45.                                *)

\* Largest value of a pixel.
MaxPixel == 1

\* Images as numpy arrays: shape, bit depth and the pixel buffer.
Shapes == {<<1, 2>>, <<2, 1>>}
Depths == {8, 16}
Images == [shape : Shapes, depth : Depths, pixels : [1..2 -> 0..MaxPixel]]

\* Builds of the imaging library; their PNG encoders compress differently.
Libs == {"build_a", "build_b"}

\* cv.imencode('.png', data)[1].tobytes(): the bytes of a PNG file. They
\* depend on the image and on the encoder which compressed it.
imencode(data, lib) == [encoder |-> lib, image |-> data]

\* cv.imdecode(data, IMREAD_ANYDEPTH | IMREAD_ANYCOLOR): the image of a PNG
\* file, whatever encoder compressed it.
imdecode(bytes) == bytes.image

PngBytes == {imencode(data, lib) : data \in Images, lib \in Libs}

\* hashlib.sha256(...).hexdigest() without collisions.
Sha256(x) == <<"sha256", x>>

\* Lines 34-38.
encode(self) == imencode(self.data, self.lib)

\* Variant: the hash is calculated from the encoded bytes.
FileBaseHashEncoded(self) == Sha256(encode(self))

\* Method hash() of class FileBase, which class PngFile inherits: the hash
\* of the native value, that is of the pixel buffer with shape and depth.
FileBaseHash(self) == Sha256(self.data)

\* Class PngFile defines encode() and decode() and no method hash().
hash(self) == FileBaseHash(self)

NoResult == << >>

\* An instance holds its data; bytes and digest are the values which the
\* latest calls of encode() and hash() for this data returned.
Instance(data, lib) ==
    [data |-> data, lib |-> lib, bytes |-> NoResult, digest |-> NoResult]

Instances == 1..2

-----------------------------------------------------------------------------
(* Parameters of the calls of register() by users of the package.          *)

UserSuffixes == {"txt", "usr"}
UserClasses ==
    {Class("JsonFile"), Class("UserFile"),
     Class("NoEncode"), Class("DecodeData"), Class("NoHash"),
     Str("txt"), Str("usr")}
UserTypes == {PyNone, PyDict, PyNdarray}

-----------------------------------------------------------------------------
(* State machine.                                                          *)

NoInstances == << >>
NoThreads == << >>

\* Number of threads which call register() at the same time.
NThreads == 2

EmptyDict == [x \in {} |-> x]

Init ==
    /\ suffixes = EmptyDict
    /\ classes = EmptyDict
    /\ formats = << >>
    /\ env \in [cv2 : BOOLEAN, numpy : BOOLEAN]
    /\ pc = "import"
    /\ modIdx = 1
    /\ tripIdx = 0
    /\ raised = "none"
    /\ calls = 0
    /\ log = << >>
    /\ container = NoContainer
    /\ fault = NoFault
    /\ png = NoInstances
    /\ th = NoThreads

\* Lines 68-75: import of one provider module.
BootImport ==
    /\ pc = "import"
    /\ LET name == ModuleNames[modIdx] IN
       IF ~Importable(name)
       THEN /\ pc' = OnModuleNotFound(modIdx).pc
            /\ modIdx' = OnModuleNotFound(modIdx).modIdx
            /\ UNCHANGED <<tripIdx, raised>>
       ELSE IF ~HasRegister(name)
       THEN /\ pc' = "aborted"
            /\ raised' = "AttributeError"
            /\ UNCHANGED <<modIdx, tripIdx>>
       ELSE IF ModuleRegister(name) = << >>
       THEN /\ pc' = NextModule(modIdx).pc
            /\ modIdx' = NextModule(modIdx).modIdx
            /\ UNCHANGED <<tripIdx, raised>>
       ELSE /\ pc' = "triples"
            /\ tripIdx' = 1
            /\ UNCHANGED <<modIdx, raised>>
    /\ UNCHANGED <<suffixes, classes, formats, env, calls, log, container, fault,
                   png, th>>

\* Lines 75-76: one triple of the provider module is registered.
BootRegister ==
    /\ pc = "triples"
    /\ LET triple == TripleAt(ModuleNames[modIdx], tripIdx)
           r == register(suffixes, classes, formats,
                         triple[1], triple[2], triple[3])
           after == AfterTriple(r.err, modIdx, tripIdx)
       IN /\ suffixes' = r.suffixes
          /\ classes' = r.classes
          /\ formats' = r.formats
          /\ log' = Append(log, Call(triple[1], triple[2], triple[3], r))
          /\ pc' = after.pc
          /\ modIdx' = after.modIdx
          /\ tripIdx' = after.tripIdx
          /\ raised' = after.raised
    /\ UNCHANGED <<env, calls, container, fault, png, th>>

\* Lines 80-86: class Container is created.
BootBind ==
    /\ pc = "bind"
    /\ pc' = "ready"
    /\ container' = [_suffixes |-> BindAttr("suffixes"),
                     _classes |-> BindAttr("classes"),
                     _formats |-> BindAttr("formats")]
    /\ UNCHANGED <<suffixes, classes, formats, env, modIdx, tripIdx, raised, calls,
                   log, fault, png, th>>

\* A user of the imported package calls register().
Register ==
    /\ pc = "ready"
    /\ calls < MaxCalls
    /\ calls' = calls + 1
    /\ \E suffix \in UserSuffixes, fclass \in UserClasses, pclass \in UserTypes :
          LET r == register(suffixes, classes, formats, suffix, fclass, pclass)
          IN /\ suffixes' = r.suffixes
             /\ classes' = r.classes
             /\ formats' = r.formats
             /\ log' = Append(log, Call(suffix, fclass, pclass, r))
    /\ UNCHANGED <<env, pc, modIdx, tripIdx, raised, container, fault, png, th>>

Next == BootImport \/ BootRegister \/ BootBind \/ Register

Spec == Init /\ [][Next]_vars

-----------------------------------------------------------------------------
(* Function register() on its own: calls with any triples, starting from   *)
(* the tables as lines 30-32 create them. The loop of lines 75-76 makes    *)
(* such calls with whatever triples the provider modules hold.             *)

RegistryInit ==
    /\ suffixes = EmptyDict
    /\ classes = EmptyDict
    /\ formats = << >>
    /\ env \in [cv2 : BOOLEAN, numpy : BOOLEAN]
    /\ pc = "ready"
    /\ modIdx = 1
    /\ tripIdx = 0
    /\ raised = "none"
    /\ calls = 0
    /\ log = << >>
    /\ container = NoContainer
    /\ fault = NoFault
    /\ png = NoInstances
    /\ th = NoThreads

SpecRegistry == RegistryInit /\ [][Register]_vars

-----------------------------------------------------------------------------
(* The package with a programming error in one provider module: the class  *)
(* of one triple of filebase or filenumpy has no method hash().            *)

FaultPositions ==
    UNION {{[module |-> name, index |-> i] : i \in 1..Len(ModuleRegister(name))} :
              name \in {"filebase", "filenumpy"}}

FaultInit ==
    /\ suffixes = EmptyDict
    /\ classes = EmptyDict
    /\ formats = << >>
    /\ env \in [cv2 : BOOLEAN, numpy : BOOLEAN]
    /\ pc = "import"
    /\ modIdx = 1
    /\ tripIdx = 0
    /\ raised = "none"
    /\ calls = 0
    /\ log = << >>
    /\ container = NoContainer
    /\ fault \in FaultPositions
    /\ png = NoInstances
    /\ th = NoThreads

SpecFault == FaultInit /\ [][Next]_vars

-----------------------------------------------------------------------------
(* Calls of register() by several threads of the program. The function     *)
(* takes no lock, so the interpreter may switch threads between any two of *)
(* its statements.                                                         *)

Threads == 1..NThreads

ThreadSuffixes == UserSuffixes
ThreadClasses == {Class("UserFile"), Class("JsonFile"), Class("NoHash"), Str("txt")}
ThreadTypes == UserTypes

Idle == [pc |-> "idle", suffix |-> "", fclass |-> Class(""), pclass |-> PyNone,
         err |-> NoError]

AtLine(t, line) == th[t].pc = line

Goto(t, line) == [th EXCEPT ![t].pc = line]

\* The threads are started once the package is imported.
ThStart ==
    /\ pc = "ready"
    /\ th = NoThreads
    /\ th' = [t \in Threads |-> Idle]
    /\ UNCHANGED <<registry, png>>

\* Lines 41-50 of a call: alias lookup and sanity check.
ThCall ==
    /\ th # NoThreads
    /\ \E t \in Threads, suffix \in ThreadSuffixes, fclass \in ThreadClasses,
          pclass \in ThreadTypes :
          LET alias == AliasPath(suffixes, fclass, pclass)
              err == IF alias.err # NoError THEN alias.err
                     ELSE SanityCheck(alias.fclass)
          IN /\ AtLine(t, "idle")
             /\ th' = [th EXCEPT ![t] =
                          [pc |-> IF err = NoError THEN "line53" ELSE "done",
                           suffix |-> suffix, fclass |-> alias.fclass,
                           pclass |-> pclass, err |-> err]]
    /\ UNCHANGED <<registry, png>>

\* Line 53.
ThSuffix ==
    /\ th # NoThreads
    /\ \E t \in Threads :
          /\ AtLine(t, "line53")
          /\ suffixes' = RegisterSuffix(suffixes, th[t].suffix, th[t].fclass)
          /\ th' = Goto(t, "line57")
    /\ UNCHANGED <<classes, formats, env, pc, modIdx, tripIdx, raised, calls, log,
                   container, fault, png>>

\* Line 57.
ThClassTest ==
    /\ th # NoThreads
    /\ \E t \in Threads :
          /\ AtLine(t, "line57")
          /\ th' = Goto(t, IF th[t].pclass \notin DOMAIN classes
                              \/ ~(th[t].pclass = PyDict)
                           THEN "line58" ELSE "line61")
    /\ UNCHANGED <<registry, png>>

\* Line 58.
ThClassSet ==
    /\ th # NoThreads
    /\ \E t \in Threads :
          /\ AtLine(t, "line58")
          /\ classes' = SetItem(classes, th[t].pclass, th[t].fclass)
          /\ th' = Goto(t, "line61")
    /\ UNCHANGED <<suffixes, formats, env, pc, modIdx, tripIdx, raised, calls, log,
                   container, fault, png>>

\* Line 61.
ThFormatTest ==
    /\ th # NoThreads
    /\ \E t \in Threads :
          /\ AtLine(t, "line61")
          /\ th' = Goto(t, IF \A i \in 1..Len(formats) : formats[i] # th[t].fclass
                           THEN "line62" ELSE "done")
    /\ UNCHANGED <<registry, png>>

\* Line 62.
ThFormatAppend ==
    /\ th # NoThreads
    /\ \E t \in Threads :
          /\ AtLine(t, "line62")
          /\ formats' = Append(formats, th[t].fclass)
          /\ th' = Goto(t, "done")
    /\ UNCHANGED <<suffixes, classes, env, pc, modIdx, tripIdx, raised, calls, log,
                   container, fault, png>>

ThreadNext ==
    \/ BootImport \/ BootRegister \/ BootBind
    \/ ThStart \/ ThCall \/ ThSuffix \/ ThClassTest \/ ThClassSet
    \/ ThFormatTest \/ ThFormatAppend

SpecThreads == Init /\ [][ThreadNext]_vars

-----------------------------------------------------------------------------
(* Use of class PngFile.                                                   *)

\* Two instances which hold an image each, maybe on different computers.
HashInit ==
    /\ suffixes = EmptyDict
    /\ classes = EmptyDict
    /\ formats = << >>
    /\ env = [cv2 |-> TRUE, numpy |-> TRUE]
    /\ pc = "import"
    /\ modIdx = 1
    /\ tripIdx = 0
    /\ raised = "none"
    /\ calls = 0
    /\ log = << >>
    /\ container = NoContainer
    /\ fault = NoFault
    /\ png \in [Instances -> {Instance(data, lib) : data \in Images, lib \in Libs}]
    /\ th = NoThreads

\* Lines 34-38: encode().
PngEncode ==
    /\ \E i \in Instances : png' = [png EXCEPT ![i].bytes = encode(png[i])]
    /\ UNCHANGED <<registry, th>>

\* Lines 40-46: decode(data).
PngDecode ==
    /\ \E i \in Instances, data \in PngBytes :
          png' = [png EXCEPT ![i] = Instance(imdecode(data), png[i].lib)]
    /\ UNCHANGED <<registry, th>>

\* hash().
PngHash ==
    /\ \E i \in Instances : png' = [png EXCEPT ![i].digest = hash(png[i])]
    /\ UNCHANGED <<registry, th>>

HashNext == PngEncode \/ PngDecode \/ PngHash

SpecHash == HashInit /\ [][HashNext]_vars

-----------------------------------------------------------------------------
(* Vocabulary of the properties.                                           *)

\* The most recent call of register().
LastCall == log[Len(log)]

\* This step is a call of register(); LastCall' is the call.
IsCall == Len(log') = Len(log) + 1

\* The class has all three methods as callable attributes.
Conforms(fclass) == \A i \in 1..Len(Methods) : Attr(fclass, Methods[i]) = "method"

\* The error raised by the sanity check of the class interface.
IsContractViolation(err) ==
    /\ err.exc = "RuntimeError"
    /\ err.msg = NoMethod("").msg
    /\ \E i \in 1..Len(Methods) : err.method = Methods[i]

\* The error raised for a string with a default class.
IsConflictingAliasBinding(err) ==
    /\ err.exc = "RuntimeError"
    /\ err.msg = AliasWithDefaultClass.msg

\* The error raised for a string which is no known suffix.
IsUnknownAliasTarget(err) == err.exc = "KeyError"

Range(f) == {f[x] : x \in DOMAIN f}

\* fclass in F of a Python list F.
InFormatsOf(F, fclass) == \E i \in 1..Len(F) : F[i] = fclass

-----------------------------------------------------------------------------
(* Properties of register().                                               *)

\* C1: a call of register() with a class object fails with the error of the
\* sanity check exactly if the class lacks one of encode, decode, hash as a
\* callable attribute; with all three the call succeeds and the suffix maps
\* to this class right after the call.
C1_ContractEnforcement ==
    (Len(log) > 0 /\ ~LastCall.fclass.isstr) =>
        /\ IsContractViolation(LastCall.err) <=> ~Conforms(LastCall.fclass)
        /\ LastCall.err # NoError <=> ~Conforms(LastCall.fclass)
        /\ Conforms(LastCall.fclass) =>
              /\ LastCall.suffix \in DOMAIN suffixes
              /\ suffixes[LastCall.suffix] = LastCall.fclass

\* A user registered a class after a class without callable decode() was
\* rejected.
C1_Witness ==
    /\ calls = 2
    /\ log[Len(log) - 1].fclass = Class("DecodeData")
    /\ IsContractViolation(log[Len(log) - 1].err)
    /\ LastCall.fclass = Class("UserFile")
    /\ LastCall.err = NoError
    /\ suffixes[LastCall.suffix] = Class("UserFile")

C3_AliasCorrectness ==
    [][(IsCall /\ LastCall'.fclass.isstr /\ LastCall'.pclass = PyNone) =>
          IF LastCall'.fclass.v \in DOMAIN suffixes
          THEN /\ LastCall'.err = NoError
               /\ LastCall'.suffix \in DOMAIN suffixes'
               /\ suffixes'[LastCall'.suffix] = suffixes'[LastCall'.fclass.v]
               /\ suffixes'[LastCall'.suffix] = suffixes[LastCall'.fclass.v]
          ELSE /\ IsUnknownAliasTarget(LastCall'.err)
               /\ ~IsContractViolation(LastCall'.err)
               /\ ~IsConflictingAliasBinding(LastCall'.err)]_vars

\* A user registered an alias of a known suffix after an alias of an unknown
\* suffix was rejected.
C3_Witness ==
    /\ calls = 2
    /\ log[Len(log) - 1].fclass = Str("usr")
    /\ IsUnknownAliasTarget(log[Len(log) - 1].err)
    /\ LastCall.suffix = "usr"
    /\ LastCall.fclass = Str("txt")
    /\ LastCall.err = NoError
    /\ suffixes["usr"] = suffixes["txt"]

\* C4: a successful call register(b, a) with a string a changes nothing but
\* key b of suffixes: classes (key None included) and formats stay as they
\* are and the class of b was a value of suffixes before the call.
C4_AliasFrame ==
    [][(IsCall /\ LastCall'.fclass.isstr /\ LastCall'.err = NoError) =>
          /\ classes' = classes
          /\ formats' = formats
          /\ DOMAIN suffixes' = DOMAIN suffixes \cup {LastCall'.suffix}
          /\ \A s \in DOMAIN suffixes :
                s # LastCall'.suffix => suffixes'[s] = suffixes[s]
          /\ suffixes'[LastCall'.suffix] \in Range(suffixes)]_vars

\* C5: register(b, a, t) with a string a and t not None fails with the error
\* of an alias with default class, whether a is a registered suffix or not,
\* and this error differs from the error of the sanity check.
C5_AliasWithNativeType ==
    (Len(log) > 0 /\ LastCall.fclass.isstr /\ LastCall.pclass # PyNone) =>
        /\ IsConflictingAliasBinding(LastCall.err)
        /\ ~IsContractViolation(LastCall.err)
        /\ \A i \in 1..Len(Methods) : LastCall.err # NoMethod(Methods[i])

\* A user call with a string and a default class failed for a registered
\* suffix and then for a suffix which is not registered.
C5_Witness ==
    /\ calls = 2
    /\ log[Len(log) - 1].fclass = Str("txt")
    /\ log[Len(log) - 1].pclass = PyDict
    /\ IsConflictingAliasBinding(log[Len(log) - 1].err)
    /\ LastCall.fclass = Str("usr")
    /\ LastCall.pclass = PyNdarray
    /\ "usr" \notin DOMAIN suffixes
    /\ IsConflictingAliasBinding(LastCall.err)

\* The class suffix s maps to according to the first n calls of the history:
\* the class of the latest successful call for s, where a string stands for
\* the class its suffix had when that call was made.
Unregistered == Class("")

RECURSIVE Writer(_, _)
Writer(n, s) ==
    IF n = 0 THEN Unregistered
    ELSE IF log[n].err = NoError /\ log[n].suffix = s
    THEN (IF log[n].fclass.isstr THEN Writer(n - 1, log[n].fclass.v)
          ELSE log[n].fclass)
    ELSE Writer(n - 1, s)

AllSuffixes == UserSuffixes \cup {"json", "txt", "log", "pgm", "bin", "npy", "png"}

\* C6: every suffix maps to the class of the most recent successful call of
\* register() for this suffix; failed calls and calls for other suffixes do
\* not count.
C6_LastWriterWins ==
    \A s \in AllSuffixes :
        IF Writer(Len(log), s) = Unregistered
        THEN s \notin DOMAIN suffixes
        ELSE s \in DOMAIN suffixes /\ suffixes[s] = Writer(Len(log), s)

\* Suffix txt was registered again by a user, a later call for txt failed,
\* and its former alias log still maps to the class of the first writer.
C6_Witness ==
    /\ calls = 2
    /\ log[Len(log) - 1].suffix = "txt"
    /\ log[Len(log) - 1].fclass = Class("UserFile")
    /\ LastCall.suffix = "txt"
    /\ LastCall.err # NoError
    /\ suffixes["txt"] = Class("UserFile")
    /\ suffixes["log"] = Class("TextFile")

\* C7: once dict maps to JsonFile in classes, no call of register() changes
\* what dict maps to.
C7_DefaultProtection ==
    [][(PyDict \in DOMAIN classes /\ classes[PyDict] = Class("JsonFile")) =>
          (PyDict \in DOMAIN classes' /\ classes'[PyDict] = Class("JsonFile"))]_vars

\* A user registered another class for dict with success.
C7_Witness ==
    /\ calls > 0
    /\ LastCall.fclass = Class("UserFile")
    /\ LastCall.pclass = PyDict
    /\ LastCall.err = NoError
    /\ classes[PyDict] = Class("JsonFile")

\* The classes of the successful calls among the first n calls of the
\* history, each at the place of its first successful registration.
RECURSIVE Discovered(_)
Discovered(n) ==
    IF n = 0 THEN << >>
    ELSE LET before == Discovered(n - 1)
             fclass == IF log[n].fclass.isstr
                       THEN Writer(n - 1, log[n].fclass.v)
                       ELSE log[n].fclass
         IN IF log[n].err = NoError /\ \A i \in 1..Len(before) : before[i] # fclass
            THEN Append(before, fclass)
            ELSE before

IsPrefix(a, b) == Len(a) <= Len(b) /\ \A i \in 1..Len(a) : a[i] = b[i]

\* C8: formats holds every class once, in the order of the first successful
\* registration of each class, and a call of register() only appends to it.
C8_KnownCodecs ==
    /\ [](/\ \A i, j \in 1..Len(formats) : formats[i] = formats[j] => i = j
          /\ formats = Discovered(Len(log)))
    /\ [][IsPrefix(formats, formats')]_vars

\* A user registered one class for two suffixes.
C8_Witness ==
    /\ calls = 2
    /\ suffixes["txt"] = Class("UserFile")
    /\ "usr" \in DOMAIN suffixes
    /\ suffixes["usr"] = Class("UserFile")
    /\ Cardinality({i \in 1..Len(formats) : formats[i] = Class("UserFile")}) = 1

\* C9: every value of suffixes and of classes is a class object with callable
\* encode, decode and hash, never a string.
C9_TablesHoldCheckedCodecs ==
    \A fclass \in Range(suffixes) \cup Range(classes) :
        ~fclass.isstr /\ Conforms(fclass)

\* A user registered a class as suffix and default class after a class
\* without hash() was rejected.
C9_Witness ==
    /\ calls = 2
    /\ log[Len(log) - 1].fclass = Class("NoHash")
    /\ log[Len(log) - 1].err # NoError
    /\ LastCall.err = NoError
    /\ LastCall.fclass = Str("txt")
    /\ LastCall.suffix = "usr"
    /\ suffixes["usr"] = Class("TextFile")
    /\ classes[PyNone] = Class("TextFile")

-----------------------------------------------------------------------------
(* Properties of the initialisation of the tables.                         *)

FileBaseSuffixes ==
    [s \in {"json", "txt", "log", "pgm", "bin"} |->
        CASE s = "json" -> Class("JsonFile")
          [] s = "bin" -> Class("BinaryFile")
          [] OTHER -> Class("TextFile")]

\* C10: when fileimage or filenumpy cannot be imported, the initialisation
\* raises nothing, and at the end of the loop the tables hold the entries of
\* filebase and of every provider which can be imported, and no entry of a
\* provider which cannot.
C10_GracefulDegradation ==
    (~Importable("fileimage") \/ ~Importable("filenumpy")) =>
        /\ raised = "none"
        /\ pc # "aborted"
        /\ pc = "bind" =>
              IF Importable("filenumpy")
              THEN /\ suffixes = SetItem(FileBaseSuffixes, "npy", Class("NpyFile"))
                   /\ classes = [t \in {PyDict, PyNone, PyNdarray} |->
                                   CASE t = PyDict -> Class("JsonFile")
                                     [] t = PyNone -> Class("BinaryFile")
                                     [] t = PyNdarray -> Class("NpyFile")]
                   /\ formats = <<Class("JsonFile"), Class("TextFile"),
                                  Class("BinaryFile"), Class("NpyFile")>>
              ELSE /\ suffixes = FileBaseSuffixes
                   /\ classes = [t \in {PyDict, PyNone} |->
                                   IF t = PyDict THEN Class("JsonFile")
                                   ELSE Class("BinaryFile")]
                   /\ formats = <<Class("JsonFile"), Class("TextFile"),
                                  Class("BinaryFile")>>

\* The loop ended with fileimage skipped and filenumpy registered after it.
C10_Witness ==
    /\ pc = "bind"
    /\ ~Importable("fileimage")
    /\ Importable("filenumpy")
    /\ raised = "none"
    /\ "npy" \in DOMAIN suffixes

-----------------------------------------------------------------------------
(* Properties of class PngFile.                                            *)

Resolved(n) ==
    IF log[n].fclass.isstr THEN Writer(n - 1, log[n].fclass.v) ELSE log[n].fclass

\* The class of the latest successful call for Python class t among the
\* first n calls of the history.
RECURSIVE TypeWriter(_, _)
TypeWriter(n, t) ==
    IF n = 0 THEN Unregistered
    ELSE IF log[n].err = NoError /\ log[n].pclass = t THEN Resolved(n)
    ELSE TypeWriter(n - 1, t)

C16_BootstrapCompletes ==
    /\ raised = "none"
    /\ pc # "aborted"
    /\ calls = 0 => \A n \in 1..Len(log) : log[n].err = NoError

\* C17: when register() raises the error of the sanity check for a triple
\* of a provider module, the initialisation ends there with this error: the
\* failed call is the last call ever made, the tables hold the triples
\* before it and nothing else, class Container is not created and no
\* further step is taken.
C17_DiscoveryAborts ==
    /\ [](\A n \in 1..(Len(log) - calls) :
            log[n].err # NoError =>
                /\ IsContractViolation(log[n].err)
                /\ n = Len(log)
                /\ pc = "aborted"
                /\ raised = "RuntimeError"
                /\ container = NoContainer
                /\ DOMAIN suffixes = {log[k].suffix : k \in 1..(n - 1)}
                /\ formats = Discovered(n - 1))
    /\ [][~(pc = "aborted" /\ raised = "RuntimeError")]_vars

\* The second of the five triples of filebase was rejected: json is
\* registered, txt and the triples after it are not.
C17_Witness ==
    /\ fault = [module |-> "filebase", index |-> 2]
    /\ pc = "aborted"
    /\ raised = "RuntimeError"
    /\ Len(log) = 2
    /\ LastCall.suffix = "txt"
    /\ IsContractViolation(LastCall.err)
    /\ DOMAIN suffixes = {"json"}
    /\ env.numpy

-----------------------------------------------------------------------------
(* Properties of register(): aliases and the list of classes.              *)

\* No successful call after call n of the history is for suffix s.
Untouched(n, s) ==
    \A k \in (n + 1)..Len(log) : ~(log[k].err = NoError /\ log[k].suffix = s)

\* Call n of the history is the latest successful call for suffix s.
LatestFor(n, s) == log[n].err = NoError /\ log[n].suffix = s /\ Untouched(n, s)

\* C18: register(b, a) with a string a gives b the class which a has at the
\* time of this call. Later calls for a leave b as it is, so b and a map to
\* the same class as long as neither was registered again, and a call for
\* one suffix never changes what another suffix maps to.
C18_AliasByValue ==
    /\ [](\A n \in 1..Len(log) :
            (log[n].fclass.isstr /\ LatestFor(n, log[n].suffix)) =>
                /\ suffixes[log[n].suffix] = Writer(n - 1, log[n].fclass.v)
                /\ Untouched(n, log[n].fclass.v) =>
                      suffixes[log[n].suffix] = suffixes[log[n].fclass.v])
    /\ [][IsCall =>
             \A s \in DOMAIN suffixes :
                 s # LastCall'.suffix => suffixes'[s] = suffixes[s]]_vars

\* A user registered usr as an alias of txt and then another class for txt:
\* usr still maps to the class which txt had.
C18_Witness ==
    /\ calls = 2
    /\ log[Len(log) - 1].suffix = "usr"
    /\ log[Len(log) - 1].fclass = Str("txt")
    /\ log[Len(log) - 1].err = NoError
    /\ LastCall.suffix = "txt"
    /\ LastCall.fclass = Class("UserFile")
    /\ LastCall.err = NoError
    /\ suffixes["usr"] = Class("TextFile")
    /\ suffixes["txt"] = Class("UserFile")

\* C19: every class which is a value of suffixes or of classes is in
\* formats, and so is the class of every successful call of register(),
\* also when no suffix and no Python class maps to it any more.
C19_FormatsCoverTables ==
    /\ \A fclass \in Range(suffixes) \cup Range(classes) :
          InFormatsOf(formats, fclass)
    /\ \A n \in 1..Len(log) :
          log[n].err = NoError => InFormatsOf(formats, Resolved(n))

\* A user registered a class for usr and then another class for usr: the
\* first class is a value of no table and still is in formats.
C19_Witness ==
    /\ calls = 2
    /\ log[Len(log) - 1].suffix = "usr"
    /\ log[Len(log) - 1].fclass = Class("UserFile")
    /\ log[Len(log) - 1].err = NoError
    /\ LastCall.suffix = "usr"
    /\ LastCall.err = NoError
    /\ Class("UserFile") \notin Range(suffixes) \cup Range(classes)
    /\ InFormatsOf(formats, Class("UserFile"))

-----------------------------------------------------------------------------
(* Properties of class Container.                                          *)

\* C13: once class Container exists, its attributes _suffixes, _classes and
\* _formats give the tables suffixes, classes and formats as they are now,
\* after every call of register().
C13_ContainerBinding ==
    pc = "ready" =>
        /\ Deref(container._suffixes) = suffixes
        /\ Deref(container._classes) = classes
        /\ Deref(container._formats) = formats

\* A user registered a class with a new suffix and a new default class
\* after class Container was created, and the container knows it.
C13_Witness ==
    /\ pc = "ready"
    /\ calls > 0
    /\ LastCall.err = NoError
    /\ LastCall.suffix = "usr"
    /\ LastCall.fclass = Class("UserFile")
    /\ LastCall.pclass = PyNdarray
    /\ Deref(container._suffixes)["usr"] = Class("UserFile")
    /\ Deref(container._classes)[PyNdarray] = Class("UserFile")
    /\ InFormatsOf(Deref(container._formats), Class("UserFile"))

-----------------------------------------------------------------------------
(* Properties of concurrent calls of register().                           *)

InFormats(fclass) == InFormatsOf(formats, fclass)

\* The call of thread t has stored its suffix and is not finished.
Pending(t) ==
    /\ th[t].pc \in {"line57", "line58", "line61", "line62"}
    /\ suffixes[th[t].suffix] = th[t].fclass

\* C12: calls of register() by two threads do not interleave: at any time
\* formats holds no class twice, at most one call is between its first and
\* its last change of the tables, every class of suffixes is in formats and
\* no class of suffixes waits for the update of classes.
C12_Serialized ==
    th # NoThreads =>
        /\ \A i, j \in 1..Len(formats) : formats[i] = formats[j] => i = j
        /\ \A t, u \in Threads :
              (th[t].pc \notin {"idle", "line53", "done"}
               /\ th[u].pc \notin {"idle", "line53", "done"}) => t = u
        /\ \A s \in DOMAIN suffixes : InFormats(suffixes[s])
        /\ \A t \in Threads : ~(th[t].pc \in {"line57", "line58"} /\ Pending(t))

\* The first part of C12 alone: formats holds no class twice.
C12_NoDuplicates ==
    \A i, j \in 1..Len(formats) : formats[i] = formats[j] => i = j

====
